---- MODULE Spec2Model ----
(***************************************************************************)
(* A model of the ImageProcessor component of photo-convert                *)
(* (src/src/components/ImageProcessor.tsx): the React state of the         *)
(* component, the useDebounce hook, the reprocess effect, handleFile with  *)
(* its FileReader callbacks, processImage with its Image callbacks, and    *)
(* the event handlers of the rendered form.                                *)
(*                                                                         *)
(* One action is one browser task: an event handler or a callback, with    *)
(* the state updates it batches and the effects React runs on the render   *)
(* that follows.                                                           *)
(*                                                                         *)
(* Left out: isDraggingOver (line 41) and the value of the file input      *)
(* (line 170).  They only style the page; no handler reads them.           *)
(***************************************************************************)
EXTENDS Integers, Sequences, FiniteSets, Bags, TLC

(***************************************************************************)
(* Bounds of the model.                                                    *)
(***************************************************************************)
\* most callbacks outstanding at once: FileReader reads pending and Image
\* decodes (processImage runs) in flight
MaxInFlight == 2
\* milliseconds that pass in one step of the clock
TickMs == 250
\* largest width and height of a source picture in SpecDim
MaxSide == 18
\* largest maxWidth and maxHeight in SpecDim
MaxLimit == 9

(***************************************************************************)
(* Values.  A JavaScript null is the empty tuple; every nullable field     *)
(* holds Null or a non-empty tuple.  Strings the code takes apart (MIME    *)
(* types, input values) are tuples of one-character strings.               *)
(***************************************************************************)
Null == <<>>

Max(a, b) == IF a >= b THEN a ELSE b

\* useDebounce(settings, 500)
DELAY == 500

\* useState({ quality: 0.8, maxWidth: 800, maxHeight: 600 }); quality in hundredths
InitialSettings == [quality |-> 80, maxWidth |-> 800, maxHeight |-> 600]

(***************************************************************************)
(* Strings.                                                                *)
(***************************************************************************)
UpperCase == <<"A","B","C","D","E","F","G","H","I","J","K","L","M",
               "N","O","P","Q","R","S","T","U","V","W","X","Y","Z">>
LowerCase == <<"a","b","c","d","e","f","g","h","i","j","k","l","m",
               "n","o","p","q","r","s","t","u","v","w","x","y","z">>

\* the case folding of the regular expression's i flag on one character
FoldCase(ch) ==
    IF \E i \in 1..Len(UpperCase) : UpperCase[i] = ch
    THEN LowerCase[CHOOSE i \in 1..Len(UpperCase) : UpperCase[i] = ch]
    ELSE ch

\* MatchesJpeg without the i flag
MatchesJpegCaseSensitive(type) ==
    type = <<"i","m","a","g","e","/","j","p","e","g">>
        \/ type = <<"i","m","a","g","e","/","j","p","g">>

\* file.type.match(/^image\/jpe?g$/i)
MatchesJpeg(type) ==
    LET folded == [i \in 1..Len(type) |-> FoldCase(type[i])]
        prefix == <<"i","m","a","g","e","/","j","p">>
    IN  /\ Len(folded) >= Len(prefix) + 1
        /\ SubSeq(folded, 1, Len(prefix)) = prefix
        /\ LET rest == SubSeq(folded, Len(prefix) + 1, Len(folded))
           IN  rest = <<"e","g">> \/ rest = <<"g">>

Digits == <<"0","1","2","3","4","5","6","7","8","9">>
IsDigit(ch) == \E i \in 1..10 : Digits[i] = ch
DigitValue(ch) == (CHOOSE i \in 1..10 : Digits[i] = ch) - 1
IsSpace(ch) == ch = " "

\* the longest prefix of s that consists of digits
RECURSIVE DigitPrefix(_)
DigitPrefix(s) ==
    IF s # <<>> /\ IsDigit(Head(s)) THEN <<Head(s)>> \o DigitPrefix(Tail(s)) ELSE <<>>

RECURSIVE DigitsValue(_, _)
DigitsValue(s, acc) ==
    IF s = <<>> THEN acc ELSE DigitsValue(Tail(s), 10 * acc + DigitValue(Head(s)))

RECURSIVE SkipSpace(_)
SkipSpace(s) == IF s # <<>> /\ IsSpace(Head(s)) THEN SkipSpace(Tail(s)) ELSE s

\* parseInt(value, 10): Null stands for NaN, <<n>> for the number n
ParseInt(value) ==
    LET s    == SkipSpace(value)
        neg  == s # <<>> /\ Head(s) = "-"
        body == IF s # <<>> /\ (Head(s) = "-" \/ Head(s) = "+") THEN Tail(s) ELSE s
        ds   == DigitPrefix(body)
    IN  IF ds = <<>> THEN Null
        ELSE <<(IF neg THEN -1 ELSE 1) * DigitsValue(ds, 0)>>

\* parseFloat(value) of a decimal with at most two fraction digits, in
\* hundredths (the range input only produces multiples of 0.05)
ParseFloat(value) ==
    LET s     == SkipSpace(value)
        ip    == DigitPrefix(s)
        after == SubSeq(s, Len(ip) + 1, Len(s))
        fp    == IF after # <<>> /\ Head(after) = "." THEN DigitPrefix(Tail(after)) ELSE <<>>
        f2    == SubSeq(fp \o <<"0","0">>, 1, 2)
    IN  100 * DigitsValue(ip, 0) + DigitsValue(f2, 0)

\* Math.max(1, parseInt(value, 10) || 1)
ParseDimension(value) ==
    LET n == ParseInt(value)
    IN  Max(1, IF n = Null \/ n = <<0>> THEN 1 ELSE n[1])

(***************************************************************************)
(* The dimension calculation of processImage (lines 67-86).                *)
(*                                                                         *)
(* The code computes in IEEE-754 doubles (53 significant bits, round to    *)
(* nearest, ties to even):                                                 *)
(*     aspectRatio  = fl(width / height)                                   *)
(*     targetHeight = fl(currentMaxWidth / aspectRatio)                    *)
(*     targetWidth  = fl(currentMaxHeight * aspectRatio)                   *)
(* and an exact quotient that ends in .5 can come out just below .5.  The  *)
(* model keeps the integers and decides every comparison of a double with  *)
(* an integer or a half exactly.  With 2^L <= width/height < 2^(L+1),      *)
(*     aspectRatio = (width * 2^(52-L) + d) / (height * 2^(52-L))          *)
(* where d, the rounding error of the division in units of the last bit    *)
(* times height, is a small integer (QuotientError).  fl(x) >= c holds     *)
(* for a double c with an even last bit iff x >= c - u/2, u the distance   *)
(* from c to the double below it; after clearing denominators the          *)
(* comparison is one of small integers, with the exact quotient deciding   *)
(* whenever it differs from c.                                             *)
(***************************************************************************)
\* the L with 2^L <= n/d < 2^(L+1)
RECURSIVE FloorLog2(_, _)
FloorLog2(n, d) ==
    IF n >= 2 * d THEN FloorLog2(n, 2 * d) + 1
    ELSE IF n < d THEN FloorLog2(2 * n, d) - 1
    ELSE 0

\* 2^e mod m
RECURSIVE PowerMod(_, _)
PowerMod(e, m) == IF e = 0 THEN 1 % m ELSE (2 * PowerMod(e - 1, m)) % m

\* a * 2^s >= b, for any integer s
ScaledAtLeast(a, s, b) == IF s >= 0 THEN a * 2^s >= b ELSE a >= b * 2^(-s)

\* line 68, aspectRatio = width / height: the d with
\* aspectRatio * height * 2^(52-L) = width * 2^(52-L) + d
QuotientError(width, height) ==
    LET e == 52 - FloorLog2(width, height)
        r == (width * PowerMod(e, height)) % height
    IN  IF r = 0 THEN 0 ELSE IF 2 * r < height THEN -r ELSE height - r

\* the exponent of the doubles just below c2/2
ExponentBelow(c2) ==
    LET k == FloorLog2(c2, 2)
    IN  IF c2 = 2^(k + 1) THEN k - 1 ELSE k

\* a target value: <<"int", n>> is the integer n, <<"quot", m>> is
\* fl(m / aspectRatio) (line 76), <<"prod", m>> is fl(m * aspectRatio) (line 81)

\* value >= c2/2
AtLeastHalves(value, c2, width, height) ==
    LET L == FloorLog2(width, height)
        d == QuotientError(width, height)
        E == ExponentBelow(c2)
    IN  CASE value[1] = "int" -> 2 * value[2] >= c2
          [] value[1] = "quot" ->
               LET D == 2 * value[2] * height - c2 * width
               IN  D > 0 \/ (D = 0 /\ (d <= 0 \/ ScaledAtLeast(width, E - L, d * c2)))
          [] value[1] = "prod" ->
               LET D == 2 * value[2] * width - c2 * height
               IN  D > 0 \/ (D = 0 /\ ScaledAtLeast(height, E - L, -2 * value[2] * d))

\* value > limit, for an integer limit: lines 74 and 79 (the value compared is
\* the source width, or the target height the width check left)
Exceeds(value, limit, width, height) ==
    LET L == FloorLog2(width, height)
        d == QuotientError(width, height)
        E == FloorLog2(limit, 1)
    IN  CASE value[1] = "int" -> value[2] > limit
          [] value[1] = "quot" ->
               LET D == value[2] * height - limit * width
               IN  D > 0 \/ (D = 0 /\ d < 0 /\ ScaledAtLeast(-d * limit, L + 1 - E, width))

\* the exact quotient behind a target value, as <<numerator, denominator>>
ExactValue(value, width, height) ==
    CASE value[1] = "int" -> <<value[2], 1>>
      [] value[1] = "quot" -> <<value[2] * height, width>>
      [] value[1] = "prod" -> <<value[2] * width, height>>

\* Math.round(value): the largest integer n with value >= n - 1/2; it is
\* within 1 of the exact quotient rounded
MathRound(value, width, height) ==
    LET x  == ExactValue(value, width, height)
        n0 == (2 * x[1] + x[2]) \div (2 * x[2])
    IN  CHOOSE n \in {m \in (n0 - 1)..(n0 + 1) : m >= 0} :
           /\ n = 0 \/ AtLeastHalves(value, 2 * n - 1, width, height)
           /\ ~AtLeastHalves(value, 2 * n + 1, width, height)

\* lines 71-77: <<targetWidth, targetHeight>> after the width check
AfterWidthCheck(width, height, currentMaxWidth) ==
    IF Exceeds(<<"int", width>>, currentMaxWidth, width, height)
    THEN << <<"int", currentMaxWidth>>, <<"quot", currentMaxWidth>> >>
    ELSE << <<"int", width>>, <<"int", height>> >>

\* the height check left out
AfterHeightCheckSkipped(target, width, height, currentMaxHeight) == target

\* the height check setting the height to the limit without rescaling the width
AfterHeightCheckKeepsWidth(target, width, height, currentMaxHeight) ==
    IF Exceeds(target[2], currentMaxHeight, width, height)
    THEN << target[1], <<"int", currentMaxHeight>> >>
    ELSE target

\* lines 79-82: <<targetWidth, targetHeight>> after the height check
AfterHeightCheck(target, width, height, currentMaxHeight) ==
    IF Exceeds(target[2], currentMaxHeight, width, height)
    THEN << <<"prod", currentMaxHeight>>, <<"int", currentMaxHeight>> >>
    ELSE target

\* CalcDimensions without the 1px floor of lines 85-86
CalcDimensionsNoFloor(width, height, currentMaxWidth, currentMaxHeight) ==
    LET t1 == AfterWidthCheck(width, height, currentMaxWidth)
        t2 == AfterHeightCheck(t1, width, height, currentMaxHeight)
    IN  << MathRound(t2[1], width, height), MathRound(t2[2], width, height) >>

\* lines 67-86: <<finalWidth, finalHeight>> of a width x height image
CalcDimensions(width, height, currentMaxWidth, currentMaxHeight) ==
    LET t1 == AfterWidthCheck(width, height, currentMaxWidth)
        t2 == AfterHeightCheck(t1, width, height, currentMaxHeight)
    IN  << Max(1, MathRound(t2[1], width, height)),
           Max(1, MathRound(t2[2], width, height)) >>

(***************************************************************************)
(* The files the user can select or drop, and what the platform makes of   *)
(* their content.                                                          *)
(***************************************************************************)
\* a file: its name, its MIME type, and the size of the picture its bytes
\* decode to (0 x 0: the bytes do not decode)
Files ==
    { [name |-> "a.jpg",   type |-> <<"i","m","a","g","e","/","j","p","e","g">>,
       width |-> 4, height |-> 3],
      [name |-> "bad.JPG", type |-> <<"I","M","A","G","E","/","J","p","g">>,
       width |-> 0, height |-> 0],
      [name |-> "c.png",   type |-> <<"i","m","a","g","e","/","p","n","g">>,
       width |-> 4, height |-> 3],
      [name |-> "d.jpg",   type |-> <<"i","m","a","g","e","/","j","p","e","g","2">>,
       width |-> 4, height |-> 3],
      [name |-> "e.jpg",   type |-> <<>>,
       width |-> 4, height |-> 3] }

\* reader.readAsDataURL(file): the data URL of the file's bytes
DataURL(file) == <<"data", file.width, file.height>>

\* whether the platform decodes the data URL (img.onload) or not (img.onerror)
Decodes(src) == src[2] > 0

\* img.width, img.height of a decoded source
NaturalWidth(src)  == src[2]
NaturalHeight(src) == src[3]

\* canvas.toDataURL('image/jpeg', quality) of the source drawn at w x h
ToDataURL(src, w, h, quality) == <<"jpeg", src[2], src[3], w, h, quality>>

\* the source a processed data URL was drawn from
SourceOf(url) == <<"data", url[2], url[3]>>

DataUrlPrefix == <<"d","a","t","a",":","i","m","a","g","e","/","j","p","e","g",";",
                   "b","a","s","e","6","4",",">>

\* processedBase64.length: the prefix and the characters of the encoded
\* picture, which grow with its area and its quality
StringLength(url) == Len(DataUrlPrefix) + 4 * ((url[4] * url[5] * url[6]) \div 300 + 1)

\* the values the form's inputs can deliver to handleSettingChange
SettingInputs ==
    { [name |-> "quality",   type |-> "range",  value |-> <<"0",".","5">>],
      [name |-> "maxWidth",  type |-> "number", value |-> <<"8","0","0">>],
      [name |-> "maxHeight", type |-> "number", value |-> <<"1">>],
      [name |-> "maxHeight", type |-> "number", value |-> <<>>],
      [name |-> "maxHeight", type |-> "number", value |-> <<"0">>],
      [name |-> "maxHeight", type |-> "number", value |-> <<"-","3">>] }

\* the error messages
MsgUnsupported == <<"Please select or drop a JPG/JPEG image file.">>
MsgReadFailed  == <<"Failed to read the file.">>
MsgLoadFailed  == <<"Failed to load the image data for processing.">>
MsgNoContext   == <<"Could not get canvas context.">>
MsgEncode      == <<"Error processing image: ">>

(***************************************************************************)
(* State.                                                                  *)
(***************************************************************************)
VARIABLES
    originalImageBase64,   \* Null or the data URL of the file read
    processedImageBase64,  \* Null or the data URL processImage produced
    base64Length,
    settings,
    processedDimensions,   \* Null or <<width, height>>
    originalFileName,
    error,                 \* Null or <<message>>
    processing,
    debouncedSettings,     \* debouncedValue of useDebounce(settings, 500)
    debouncedIsSettings,   \* debouncedValue and settings are the same object
    handler,               \* ms until the setTimeout of useDebounce expires, -1: none pending
    readers,               \* bag of pending FileReader reads (their data URLs)
    images,                \* bag of Image objects loading: the processImage runs in flight
    sinceEdit,             \* history: ms since settings last changed, capped at DELAY
    latest,                \* history: data URL of the file of the latest handleFile call, or Null
    burst,                 \* history: the settings edits made with a source loaded since
                           \* the timeout last expired (edits, counted to 2), and the
                           \* processImage runs entered since the last of them
    last                   \* history: the step taken last; after handleFile(file) also
                           \* the file's name and the result before the call

vars == << originalImageBase64, processedImageBase64, base64Length, settings,
           processedDimensions, originalFileName, error, processing,
           debouncedSettings, debouncedIsSettings, handler, readers, images,
           sinceEdit, latest, burst, last >>

\* the callbacks outstanding
InFlight == BagCardinality(readers) + BagCardinality(images)

NoBurst == [clean |-> FALSE, edits |-> 0, runs |-> 0, args |-> InitialSettings, at |-> 0]

Init ==
    /\ originalImageBase64 = Null
    /\ processedImageBase64 = Null
    /\ base64Length = 0
    /\ settings = InitialSettings
    /\ processedDimensions = Null
    /\ originalFileName = ""
    /\ error = Null
    /\ processing = FALSE
    /\ debouncedSettings = InitialSettings
    /\ debouncedIsSettings = TRUE
    /\ handler = DELAY
    /\ readers = EmptyBag
    /\ images = EmptyBag
    /\ sinceEdit = 0
    /\ latest = Null
    /\ burst = NoBurst
    /\ last = <<"mount">>

(***************************************************************************)
(* processImage, lines 46-54: the entry of a run.  The promise callbacks   *)
(* run later, as ImgOnload or ImgOnerror.                                  *)
(***************************************************************************)
Run(sourceBase64, currentQuality, currentMaxWidth, currentMaxHeight) ==
    [src |-> sourceBase64, quality |-> currentQuality,
     maxWidth |-> currentMaxWidth, maxHeight |-> currentMaxHeight]

ProcessImage(sourceBase64, currentQuality, currentMaxWidth, currentMaxHeight) ==
    IF sourceBase64 = Null
    THEN UNCHANGED <<processing, error, processedDimensions, images>>
    ELSE /\ processing' = TRUE
         /\ error' = Null
         /\ processedDimensions' = Null
         /\ images' = images (+) SetToBag({Run(sourceBase64, currentQuality,
                                               currentMaxWidth, currentMaxHeight)})

\* history: a run entered with these settings
RunCounted(s) ==
    IF burst.clean
    THEN [burst EXCEPT !.runs = IF @ < 2 THEN @ + 1 ELSE @, !.args = s, !.at = sinceEdit]
    ELSE burst

(***************************************************************************)
(* The reprocess effect, lines 139-148, on a render where                  *)
(* originalImageBase64 or debouncedSettings changed.                       *)
(***************************************************************************)
ReprocessEffect(original, debounced) ==
    IF original # Null
    THEN /\ InFlight < MaxInFlight
         /\ ProcessImage(original, debounced.quality, debounced.maxWidth, debounced.maxHeight)
         /\ burst' = RunCounted(debounced)
    ELSE UNCHANGED <<processing, error, processedDimensions, images, burst>>

\* handleFile with the type check ahead of the reset: a rejected file leaves
\* the state as it was, but for the error
HandleFileCheckFirst(file) ==
    IF file # Null /\ ~MatchesJpeg(file.type)
    THEN /\ error' = MsgUnsupported
         /\ last' = <<"handleFile rejected", file.name,
                      <<processedImageBase64, processedDimensions, base64Length>> >>
         /\ latest' = Null
         /\ burst' = NoBurst
         /\ UNCHANGED <<originalImageBase64, processedImageBase64, base64Length,
                        processedDimensions, originalFileName, processing, readers>>
    ELSE /\ originalImageBase64' = Null
         /\ processedImageBase64' = Null
         /\ base64Length' = 0
         /\ processedDimensions' = Null
         /\ error' = Null
         /\ burst' = NoBurst
         /\ IF file = Null
            THEN /\ originalFileName' = ""
                 /\ latest' = Null
                 /\ UNCHANGED <<processing, readers>>
                 /\ last' = <<"handleFile none">>
            ELSE /\ InFlight < MaxInFlight
                 /\ originalFileName' = file.name
                 /\ latest' = DataURL(file)
                 /\ processing' = TRUE
                 /\ readers' = readers (+) SetToBag({DataURL(file)})
                 /\ last' = <<"handleFile accepted", file.name,
                              <<processedImageBase64, processedDimensions, base64Length>> >>

\* handleFile without setProcessedImageBase64(null) and setBase64Length(0):
\* the result of the previous file outlives the call
HandleFileKeepsResult(file) ==
    /\ originalImageBase64' = Null
    /\ processedDimensions' = Null
    /\ UNCHANGED <<processedImageBase64, base64Length>>
    /\ latest' = IF file # Null /\ MatchesJpeg(file.type) THEN DataURL(file) ELSE Null
    /\ burst' = NoBurst
    /\ IF file = Null
       THEN /\ originalFileName' = ""
            /\ error' = Null
            /\ UNCHANGED <<processing, readers>>
            /\ last' = <<"handleFile none">>
       ELSE IF ~MatchesJpeg(file.type)
       THEN /\ originalFileName' = ""
            /\ error' = MsgUnsupported
            /\ UNCHANGED <<processing, readers>>
            /\ last' = <<"handleFile rejected", file.name,
                          <<processedImageBase64, processedDimensions, base64Length>> >>
       ELSE /\ InFlight < MaxInFlight
            /\ originalFileName' = file.name
            /\ error' = Null
            /\ processing' = TRUE
            /\ readers' = readers (+) SetToBag({DataURL(file)})
            /\ last' = <<"handleFile accepted", file.name,
                         <<processedImageBase64, processedDimensions, base64Length>> >>

(***************************************************************************)
(* handleFile, lines 151-199.                                              *)
(***************************************************************************)
HandleFile(file) ==
    /\ originalImageBase64' = Null
    /\ processedImageBase64' = Null
    /\ base64Length' = 0
    /\ processedDimensions' = Null
    /\ latest' = IF file # Null /\ MatchesJpeg(file.type) THEN DataURL(file) ELSE Null
    /\ burst' = NoBurst
    /\ IF file = Null
       THEN /\ originalFileName' = ""
            /\ error' = Null
            /\ UNCHANGED <<processing, readers>>
            /\ last' = <<"handleFile none">>
       ELSE IF ~MatchesJpeg(file.type)
       THEN /\ originalFileName' = ""
            /\ error' = MsgUnsupported
            /\ UNCHANGED <<processing, readers>>
            /\ last' = <<"handleFile rejected", file.name,
                          <<processedImageBase64, processedDimensions, base64Length>> >>
       ELSE /\ InFlight < MaxInFlight
            /\ originalFileName' = file.name
            /\ error' = Null
            /\ processing' = TRUE
            /\ readers' = readers (+) SetToBag({DataURL(file)})
            /\ last' = <<"handleFile accepted", file.name,
                         <<processedImageBase64, processedDimensions, base64Length>> >>

\* handleFileChange, lines 202-205; the input is disabled while processing (line 327)
HandleFileChange(file) ==
    /\ ~processing
    /\ HandleFile(file)
    /\ UNCHANGED <<settings, debouncedSettings, debouncedIsSettings,
                   handler, images, sinceEdit>>

\* handleDrop, lines 238-244; the drop target is never disabled
HandleDrop(file) ==
    /\ HandleFile(file)
    /\ UNCHANGED <<settings, debouncedSettings, debouncedIsSettings, handler, images,
                   sinceEdit>>

(***************************************************************************)
(* The FileReader callbacks of handleFile, lines 180-195.                  *)
(***************************************************************************)
\* reader.onload: the result of readAsDataURL is a string
ReaderOnload(result) ==
    /\ BagIn(result, readers)
    /\ readers' = readers (-) SetToBag({result})
    /\ originalImageBase64' = result
    /\ IF result # originalImageBase64
       THEN /\ ProcessImage(result, debouncedSettings.quality, debouncedSettings.maxWidth,
                            debouncedSettings.maxHeight)
            /\ burst' = NoBurst
       ELSE UNCHANGED <<processing, error, processedDimensions, images, burst>>
    /\ last' = <<"reader.onload">>
    /\ UNCHANGED << processedImageBase64, base64Length, settings, originalFileName,
                    debouncedSettings, debouncedIsSettings, handler, sinceEdit, latest >>

\* reader.onerror
ReaderOnerror(result) ==
    /\ BagIn(result, readers)
    /\ readers' = readers (-) SetToBag({result})
    /\ error' = MsgReadFailed
    /\ processing' = FALSE
    /\ last' = <<"reader.onerror">>
    /\ UNCHANGED << originalImageBase64, processedImageBase64, base64Length, settings,
                    processedDimensions, originalFileName,
                    debouncedSettings, debouncedIsSettings, handler, images,
                    sinceEdit, latest, burst >>

(***************************************************************************)
(* The Image callbacks of processImage, lines 56-127.                      *)
(***************************************************************************)
\* what the platform can do in img.onload: getContext('2d') returns null,
\* toDataURL throws, or the canvas is encoded
Outcomes == {"no context", "toDataURL throws", "encoded"}

\* img.onload whose no-context branch returns without setProcessing(false)
ImgOnloadStaysBusy(run, outcome) ==
    /\ BagIn(run, images)
    /\ Decodes(run.src)
    /\ images' = images (-) SetToBag({run})
    /\ LET final == CalcDimensions(NaturalWidth(run.src), NaturalHeight(run.src),
                                   run.maxWidth, run.maxHeight)
           processedBase64 == ToDataURL(run.src, final[1], final[2], run.quality)
       IN  CASE outcome = "no context" ->
                  /\ error' = MsgNoContext
                  /\ UNCHANGED <<processing, processedDimensions, processedImageBase64,
                                 base64Length>>
             [] outcome = "encoded" ->
                  /\ processedDimensions' = final
                  /\ processedImageBase64' = processedBase64
                  /\ base64Length' = StringLength(processedBase64)
                  /\ error' = Null
                  /\ processing' = FALSE
             [] outcome = "toDataURL throws" ->
                  /\ error' = MsgEncode
                  /\ processedImageBase64' = Null
                  /\ processedDimensions' = Null
                  /\ base64Length' = 0
                  /\ processing' = FALSE
    /\ last' = <<outcome>>
    /\ UNCHANGED << originalImageBase64, settings, originalFileName,
                    debouncedSettings, debouncedIsSettings, handler, readers,
                    sinceEdit, latest, burst >>

\* img.onload taking the limits from the state at the time of the callback
\* (debouncedSettings) instead of the arguments the run was entered with
ImgOnloadReadsState(run, outcome) ==
    /\ BagIn(run, images)
    /\ Decodes(run.src)
    /\ images' = images (-) SetToBag({run})
    /\ LET final == CalcDimensions(NaturalWidth(run.src), NaturalHeight(run.src),
                                   debouncedSettings.maxWidth, debouncedSettings.maxHeight)
           processedBase64 == ToDataURL(run.src, final[1], final[2], run.quality)
       IN  CASE outcome = "no context" ->
                  /\ error' = MsgNoContext
                  /\ processing' = FALSE
                  /\ UNCHANGED <<processedDimensions, processedImageBase64, base64Length>>
             [] outcome = "encoded" ->
                  /\ processedDimensions' = final
                  /\ processedImageBase64' = processedBase64
                  /\ base64Length' = StringLength(processedBase64)
                  /\ error' = Null
                  /\ processing' = FALSE
             [] outcome = "toDataURL throws" ->
                  /\ error' = MsgEncode
                  /\ processedImageBase64' = Null
                  /\ processedDimensions' = Null
                  /\ base64Length' = 0
                  /\ processing' = FALSE
    /\ last' = <<outcome>>
    /\ UNCHANGED << originalImageBase64, settings, originalFileName,
                    debouncedSettings, debouncedIsSettings, handler, readers,
                    sinceEdit, latest, burst >>

\* img.onload whose catch branch leaves out setBase64Length(0)
ImgOnloadKeepsLength(run, outcome) ==
    /\ BagIn(run, images)
    /\ Decodes(run.src)
    /\ images' = images (-) SetToBag({run})
    /\ LET final == CalcDimensions(NaturalWidth(run.src), NaturalHeight(run.src),
                                   run.maxWidth, run.maxHeight)
           processedBase64 == ToDataURL(run.src, final[1], final[2], run.quality)
       IN  CASE outcome = "no context" ->
                  /\ error' = MsgNoContext
                  /\ processing' = FALSE
                  /\ UNCHANGED <<processedDimensions, processedImageBase64, base64Length>>
             [] outcome = "encoded" ->
                  /\ processedDimensions' = final
                  /\ processedImageBase64' = processedBase64
                  /\ base64Length' = StringLength(processedBase64)
                  /\ error' = Null
                  /\ processing' = FALSE
             [] outcome = "toDataURL throws" ->
                  /\ error' = MsgEncode
                  /\ processedImageBase64' = Null
                  /\ processedDimensions' = Null
                  /\ UNCHANGED base64Length
                  /\ processing' = FALSE
    /\ last' = <<outcome>>
    /\ UNCHANGED << originalImageBase64, settings, originalFileName,
                    debouncedSettings, debouncedIsSettings, handler, readers,
                    sinceEdit, latest, burst >>

\* img.onload of a run in flight
ImgOnload(run, outcome) ==
    /\ BagIn(run, images)
    /\ Decodes(run.src)
    /\ images' = images (-) SetToBag({run})
    /\ LET final == CalcDimensions(NaturalWidth(run.src), NaturalHeight(run.src),
                                   run.maxWidth, run.maxHeight)
           processedBase64 == ToDataURL(run.src, final[1], final[2], run.quality)
       IN  CASE outcome = "no context" ->
                  /\ error' = MsgNoContext
                  /\ processing' = FALSE
                  /\ UNCHANGED <<processedDimensions, processedImageBase64, base64Length>>
             [] outcome = "encoded" ->
                  /\ processedDimensions' = final
                  /\ processedImageBase64' = processedBase64
                  /\ base64Length' = StringLength(processedBase64)
                  /\ error' = Null
                  /\ processing' = FALSE
             [] outcome = "toDataURL throws" ->
                  /\ error' = MsgEncode
                  /\ processedImageBase64' = Null
                  /\ processedDimensions' = Null
                  /\ base64Length' = 0
                  /\ processing' = FALSE
    /\ last' = <<outcome>>
    /\ UNCHANGED << originalImageBase64, settings, originalFileName,
                    debouncedSettings, debouncedIsSettings, handler, readers,
                    sinceEdit, latest, burst >>

\* img.onerror of a run in flight
ImgOnerror(run) ==
    /\ BagIn(run, images)
    /\ ~Decodes(run.src)
    /\ images' = images (-) SetToBag({run})
    /\ error' = MsgLoadFailed
    /\ processedImageBase64' = Null
    /\ processedDimensions' = Null
    /\ base64Length' = 0
    /\ processing' = FALSE
    /\ last' = <<"img.onerror">>
    /\ UNCHANGED << originalImageBase64, settings, originalFileName,
                    debouncedSettings, debouncedIsSettings, handler, readers,
                    sinceEdit, latest, burst >>

(***************************************************************************)
(* handleSettingChange, lines 208-217, with the useDebounce effect         *)
(* (lines 9-19) of the render that follows: the pending timeout is         *)
(* cleared and a new one is set.  The inputs are disabled while            *)
(* processing (lines 272, 289, 308).                                       *)
(***************************************************************************)
ProcessedValue(input) ==
    IF input.type = "number" \/ input.name \in {"quality", "maxWidth", "maxHeight"}
    THEN IF input.name = "quality" THEN ParseFloat(input.value)
         ELSE ParseDimension(input.value)
    ELSE input.value

\* handleSettingChange when the reprocess effect depends on settings instead of
\* debouncedSettings: every edit enters a run
HandleSettingChangeUndebounced(input) ==
    /\ ~processing
    /\ settings' = [settings EXCEPT ![input.name] = ProcessedValue(input)]
    /\ debouncedIsSettings' = FALSE
    /\ handler' = DELAY
    /\ sinceEdit' = 0
    /\ IF originalImageBase64 # Null
       THEN /\ InFlight < MaxInFlight
            /\ ProcessImage(originalImageBase64, settings'.quality, settings'.maxWidth,
                            settings'.maxHeight)
            /\ burst' = [NoBurst EXCEPT !.clean = TRUE,
                                        !.edits = IF burst.clean /\ handler >= 0 THEN 2 ELSE 1,
                                        !.runs = 1, !.args = settings', !.at = 0]
       ELSE /\ burst' = NoBurst
            /\ UNCHANGED <<processing, error, processedDimensions, images>>
    /\ last' = <<"handleSettingChange">>
    /\ UNCHANGED << originalImageBase64, processedImageBase64, base64Length,
                    originalFileName, debouncedSettings, readers, latest >>

\* handleSettingChange when the effect of useDebounce has no cleanup: the
\* timeout already pending is not cleared and expires at its old time
HandleSettingChangeNoCancel(input) ==
    /\ ~processing
    /\ settings' = [settings EXCEPT ![input.name] = ProcessedValue(input)]
    /\ debouncedIsSettings' = FALSE
    /\ handler' = IF handler >= 0 THEN handler ELSE DELAY
    /\ sinceEdit' = 0
    /\ burst' = IF originalImageBase64 # Null
                THEN [NoBurst EXCEPT !.clean = TRUE,
                                     !.edits = IF burst.clean /\ handler >= 0 THEN 2 ELSE 1]
                ELSE NoBurst
    /\ last' = <<"handleSettingChange">>
    /\ UNCHANGED << originalImageBase64, processedImageBase64, base64Length,
                    processedDimensions, originalFileName, error, processing,
                    debouncedSettings, readers, images, latest >>

HandleSettingChange(input) ==
    /\ ~processing
    /\ settings' = [settings EXCEPT ![input.name] = ProcessedValue(input)]
    /\ debouncedIsSettings' = FALSE
    /\ handler' = DELAY
    /\ sinceEdit' = 0
    /\ burst' = IF originalImageBase64 # Null
                THEN [NoBurst EXCEPT !.clean = TRUE,
                                     !.edits = IF burst.clean /\ handler >= 0 THEN 2 ELSE 1]
                ELSE NoBurst
    /\ last' = <<"handleSettingChange">>
    /\ UNCHANGED << originalImageBase64, processedImageBase64, base64Length,
                    processedDimensions, originalFileName, error, processing,
                    debouncedSettings, readers, images, latest >>

(***************************************************************************)
(* useDebounce, lines 6-22: the timeout.                                   *)
(***************************************************************************)
\* time passes
Tick ==
    /\ handler > 0 \/ sinceEdit < DELAY
    /\ handler' = IF handler > 0 THEN Max(0, handler - TickMs) ELSE handler
    /\ sinceEdit' = IF sinceEdit + TickMs < DELAY THEN sinceEdit + TickMs ELSE DELAY
    /\ last' = <<"tick">>
    /\ UNCHANGED << originalImageBase64, processedImageBase64, base64Length, settings,
                    processedDimensions, originalFileName, error, processing,
                    debouncedSettings, debouncedIsSettings, readers, images, latest,
                    burst >>

\* the timeout expires: setDebouncedValue(value), which changes nothing when
\* value is the object debouncedValue already is; then the reprocess effect
TimerExpires ==
    /\ handler = 0
    /\ handler' = -1
    /\ IF debouncedIsSettings
       THEN UNCHANGED <<debouncedSettings, debouncedIsSettings, processing, error,
                        processedDimensions, images, burst>>
       ELSE /\ debouncedSettings' = settings
            /\ debouncedIsSettings' = TRUE
            /\ ReprocessEffect(originalImageBase64, settings)
    /\ last' = <<"timeout">>
    /\ UNCHANGED << originalImageBase64, processedImageBase64, base64Length, settings,
                    originalFileName, readers, sinceEdit, latest >>

(***************************************************************************)
(* The component.                                                          *)
(***************************************************************************)
FileChoices == Files \cup {Null}

Next ==
    \/ \E file \in FileChoices : HandleFileChange(file)
    \/ \E file \in FileChoices : HandleDrop(file)
    \/ \E result \in BagToSet(readers) : ReaderOnload(result)
    \/ \E result \in BagToSet(readers) : ReaderOnerror(result)
    \/ \E run \in BagToSet(images), outcome \in Outcomes : ImgOnload(run, outcome)
    \/ \E run \in BagToSet(images) : ImgOnerror(run)
    \/ \E input \in SettingInputs : HandleSettingChange(input)
    \/ Tick
    \/ TimerExpires

Spec == Init /\ [][Next]_vars

\* the FileReader and Image callbacks are always delivered in the end
Callbacks ==
    \/ \E result \in BagToSet(readers) : ReaderOnload(result) \/ ReaderOnerror(result)
    \/ \E run \in BagToSet(images) :
          ImgOnerror(run) \/ \E outcome \in Outcomes : ImgOnload(run, outcome)

FairSpec == Spec /\ WF_vars(Callbacks)

(***************************************************************************)
(* Properties.                                                             *)
(***************************************************************************)
\* no read pending and no run in flight
Quiescent == readers = EmptyBag /\ images = EmptyBag

\* the result a successful run stores for a source under given settings
DerivedDimensions(src, s) ==
    CalcDimensions(NaturalWidth(src), NaturalHeight(src), s.maxWidth, s.maxHeight)
DerivedResult(src, s) ==
    ToDataURL(src, DerivedDimensions(src, s)[1], DerivedDimensions(src, s)[2], s.quality)

NoResult ==
    /\ processedImageBase64 = Null
    /\ processedDimensions = Null
    /\ base64Length = 0

\* C1: most-recent request wins: whenever no read is pending, no run is in
\* flight and the debounce timeout has expired, a stored result is the one
\* derived from the current originalImageBase64 and the current debounced
\* settings.
MostRecentRequestWins ==
    (Quiescent /\ handler = -1 /\ ~NoResult) =>
        /\ originalImageBase64 # Null
        /\ processedImageBase64 = DerivedResult(originalImageBase64, debouncedSettings)
        /\ processedDimensions = DerivedDimensions(originalImageBase64, debouncedSettings)
        /\ base64Length = StringLength(processedImageBase64)

\* C2: once handleFile has started an ingestion attempt, a visible result
\* (processedImageBase64 non-null and processing false) was produced from the
\* file of the latest handleFile call.
NoSupersededResult ==
    (latest # Null /\ processedImageBase64 # Null /\ ~processing) =>
        SourceOf(processedImageBase64) = latest

(***************************************************************************)
(* The dimension calculation on its own: a run in flight for a source of   *)
(* any size up to MaxSide under any limits up to MaxLimit, the state after *)
(* the file was read and the settings were debounced; then img.onload.     *)
(***************************************************************************)
DimInit ==
    \E w \in 1..MaxSide, h \in 1..MaxSide, mw \in 1..MaxLimit, mh \in 1..MaxLimit :
       LET src == <<"data", w, h>>
           s   == [quality |-> 80, maxWidth |-> mw, maxHeight |-> mh]
       IN  /\ originalImageBase64 = src
           /\ processedImageBase64 = Null
           /\ base64Length = 0
           /\ settings = s
           /\ processedDimensions = Null
           /\ originalFileName = "a.jpg"
           /\ error = Null
           /\ processing = TRUE
           /\ debouncedSettings = s
           /\ debouncedIsSettings = TRUE
           /\ handler = -1
           /\ readers = EmptyBag
           /\ images = SetToBag({Run(src, s.quality, s.maxWidth, s.maxHeight)})
           /\ sinceEdit = DELAY
           /\ latest = src
           /\ burst = NoBurst
           /\ last = <<"timeout">>

DimNext == \E run \in BagToSet(images), outcome \in Outcomes : ImgOnload(run, outcome)

SpecDim == DimInit /\ [][DimNext]_vars

(***************************************************************************)
(* Properties of the debounce and of handleFile.                           *)
(***************************************************************************)
\* C3: settings edits made with a source loaded, each before the timeout of
\* the previous one expired, enter no run while the timeout is pending and
\* exactly one once it has expired; that run starts when the last edit is
\* DELAY ms old and takes the settings of the last edit.
DebouncedBurstRunsOnce ==
    burst.clean =>
        /\ handler >= 0 => burst.runs = 0
        /\ handler = -1 =>
              /\ burst.runs = 1
              /\ burst.args = settings
              /\ burst.at = DELAY

\* several edits within the window, then the one run
BurstWitness ==
    /\ burst.clean
    /\ burst.edits = 2
    /\ burst.runs = 1
    /\ handler = -1
    /\ settings # InitialSettings
    /\ Decodes(originalImageBase64)

PngFile == CHOOSE f \in Files : f.name = "c.png"

RejectedPng == last[1] = "handleFile rejected" /\ last[2] = PngFile.name

\* C4 as claimed: rejecting a PNG yields the unsupported-type error and
\* leaves the result that was there before the call as it was.
RejectedPngKeepsResult ==
    RejectedPng =>
        /\ error = MsgUnsupported
        /\ <<processedImageBase64, processedDimensions, base64Length>> = last[3]

\* C4 as amended: rejecting a PNG yields the unsupported-type error and
\* clears the result that was there before the call.
RejectedPngClearsResult ==
    RejectedPng =>
        /\ error = MsgUnsupported
        /\ NoResult

\* a PNG was rejected while a result was stored
RejectedPngWitness ==
    /\ RejectedPng
    /\ last[3][1] # Null

\* the types C7 names: image/jpeg or image/jpg, in any letter case
IsJpegType(type) ==
    [i \in 1..Len(type) |-> FoldCase(type[i])] \in
        { <<"i","m","a","g","e","/","j","p","e","g">>, <<"i","m","a","g","e","/","j","p","g">> }

\* the file of the given name
FileNamed(name) == CHOOSE file \in Files : file.name = name

\* C7: handleFile rejects every file whose type is not image/jpeg or
\* image/jpg in some letter case: it sets the unsupported-type error, starts
\* no read, leaves processing as it was and originalImageBase64 null; every
\* other file is accepted: a read of it is started and processing is set.
TypeCheckDecides ==
    [][/\ last'[1] = "handleFile rejected" =>
             /\ ~IsJpegType(FileNamed(last'[2]).type)
             /\ error' = MsgUnsupported
             /\ readers' = readers
             /\ processing' = processing
             /\ originalImageBase64' = Null
       /\ last'[1] = "handleFile accepted" =>
             /\ IsJpegType(FileNamed(originalFileName').type)
             /\ readers' = readers (+) SetToBag({DataURL(FileNamed(originalFileName'))})
             /\ processing'
             /\ error' = Null]_vars

\* a file whose type has a character too many was rejected
RejectedWitness ==
    /\ last[1] = "handleFile rejected"
    /\ last[2] = "d.jpg"
    /\ error = MsgUnsupported

(***************************************************************************)
(* Properties of the error branches and of the busy flag.                  *)
(***************************************************************************)
ErrorSteps ==
    {"handleFile rejected", "reader.onerror", "img.onerror", "no context", "toDataURL throws"}

\* C8: after every error outcome, when no other read or run is in flight,
\* no result is stored, an error message is set and processing is false.
ErrorsLeaveNoResult ==
    (last[1] \in ErrorSteps /\ Quiescent) =>
        /\ NoResult
        /\ error # Null
        /\ ~processing

\* C9: a run sets processing on entry and clears it in its terminal
\* callback, a failed read clears it; when nothing is in flight processing is
\* false; and whenever processing is true it becomes false again.
BusyFlagReleased ==
    /\ [](Quiescent => ~processing)
    /\ [][/\ BagCardinality(images') > BagCardinality(images) => processing'
          /\ BagCardinality(images') < BagCardinality(images) => ~processing'
          /\ last'[1] = "reader.onerror" => ~processing']_vars
    /\ (processing ~> ~processing)

\* a run has ended in each way and left nothing in flight
BusyWitness ==
    /\ last[1] \in Outcomes \cup {"img.onerror"}
    /\ Quiescent
    /\ ~processing

\* C10: while a run is in flight no result is stored.
StaleResultCleared == images # EmptyBag => NoResult

(***************************************************************************)
(* Properties of the dimension calculation, under SpecDim.                 *)
(***************************************************************************)
SourceWidth  == NaturalWidth(originalImageBase64)
SourceHeight == NaturalHeight(originalImageBase64)
Encoded == last = <<"encoded">>

\* C5: the dimensions a run stores are at least 1 x 1, and are the source's
\* own when the source fits the limits.
DimensionsPositive ==
    Encoded =>
        /\ processedDimensions[1] >= 1
        /\ processedDimensions[2] >= 1
        /\ (SourceWidth <= debouncedSettings.maxWidth
               /\ SourceHeight <= debouncedSettings.maxHeight)
              => processedDimensions = <<SourceWidth, SourceHeight>>

\* a source so wide that the scaled height rounds to 0 and the floor applies
FloorWitness ==
    /\ Encoded
    /\ SourceWidth > debouncedSettings.maxWidth
    /\ 2 * debouncedSettings.maxWidth * SourceHeight < SourceWidth
    /\ processedDimensions[2] = 1

\* C6: the dimensions a run stores are within maxWidth and maxHeight.
DimensionsWithinLimits ==
    Encoded =>
        /\ processedDimensions[1] <= debouncedSettings.maxWidth
        /\ processedDimensions[2] <= debouncedSettings.maxHeight

\* the width check and then the height check both fired
BothChecksWitness ==
    /\ Encoded
    /\ SourceWidth > debouncedSettings.maxWidth
    /\ debouncedSettings.maxWidth * SourceHeight > debouncedSettings.maxHeight * SourceWidth
    /\ processedDimensions[1] < debouncedSettings.maxWidth

(***************************************************************************)
(* Properties of useDebounce.                                              *)
(***************************************************************************)
\* C11: the debounced value changes only to the settings value that has been
\* unchanged for DELAY ms, when the timeout expires; an edit made while the
\* timeout is pending leaves the debounced value as it was, so a value that
\* was replaced within DELAY ms is never exposed.
DebounceExposesStable ==
    /\ [](debouncedIsSettings => debouncedSettings = settings)
    /\ [][/\ debouncedSettings' # debouncedSettings =>
                /\ handler = 0
                /\ sinceEdit = DELAY
                /\ debouncedSettings' = settings
                /\ settings' = settings
          /\ settings' # settings => debouncedSettings' = debouncedSettings]_vars

\* two edits within the window were made and the timeout then exposed the last
DebounceWitness ==
    /\ last[1] = "timeout"
    /\ burst.edits = 2
    /\ debouncedSettings = settings
    /\ debouncedSettings.quality # InitialSettings.quality
    /\ debouncedSettings.maxHeight # InitialSettings.maxHeight

(***************************************************************************)
(* Properties of the state handleFile and the runs leave.                  *)
(***************************************************************************)
HandleFileSteps == {"handleFile none", "handleFile rejected", "handleFile accepted"}

\* C12: directly after handleFile, whatever its argument, the source and the
\* result are cleared (originalImageBase64, processedImageBase64 and
\* processedDimensions null, base64Length 0) and error is null or the
\* rejection message; a read started by the call is still pending.
HandleFileClearsDerived ==
    last[1] \in HandleFileSteps =>
        /\ originalImageBase64 = Null
        /\ NoResult
        /\ error \in {Null, MsgUnsupported}
        /\ last[1] = "handleFile accepted" => BagIn(latest, readers)

\* a valid JPEG was chosen while a result was stored
HandleFileClearsWitness ==
    /\ last[1] = "handleFile accepted"
    /\ last[3][1] # Null
    /\ NoResult

\* C13: the result fields are set or cleared together: either all three are
\* cleared, or processedImageBase64 is set and processedDimensions and
\* base64Length are those of the run that produced it.
ResultReplacedWhole ==
    \/ NoResult
    \/ /\ processedImageBase64 # Null
       /\ processedDimensions = <<processedImageBase64[4], processedImageBase64[5]>>
       /\ base64Length = StringLength(processedImageBase64)

(***************************************************************************)
(* More properties of the dimension calculation, under SpecDim.            *)
(***************************************************************************)
RunLimits == debouncedSettings

\* n / d rounded to the nearest integer, halves up
RoundedQuotient(n, d) == (2 * n + d) \div (2 * d)

\* C14: the width is checked first: for a source wider than maxWidth whose
\* height scaled by maxWidth / width is within maxHeight, the stored
\* dimensions are maxWidth by round(maxWidth * height / width), at least 1.
WidthClampFirst ==
    (/\ Encoded
     /\ SourceWidth > RunLimits.maxWidth
     /\ RunLimits.maxWidth * SourceHeight <= RunLimits.maxHeight * SourceWidth) =>
        processedDimensions =
            << RunLimits.maxWidth,
               Max(1, RoundedQuotient(RunLimits.maxWidth * SourceHeight, SourceWidth)) >>

\* the rounded targets of lines 85-86 before Math.max(1, ...) is applied
RoundedTargets(width, height, currentMaxWidth, currentMaxHeight) ==
    LET t == AfterHeightCheck(AfterWidthCheck(width, height, currentMaxWidth),
                              width, height, currentMaxHeight)
    IN  << MathRound(t[1], width, height), MathRound(t[2], width, height) >>

\* the 1px floor of lines 85-86 raised a side of the stored dimensions
FloorApplied ==
    processedDimensions #
        RoundedTargets(SourceWidth, SourceHeight, RunLimits.maxWidth, RunLimits.maxHeight)

\* there are w, h with w / h = width / height, |fw - w| <= 1/2 and
\* |fh - h| <= 1/2: the lines through the corners of the square of side 1
\* around (fw, fh) have the slope height / width between them
WithinHalfOfRatio(fw, fh, width, height) ==
    /\ (2 * fh - 1) * width <= (2 * fw + 1) * height
    /\ (2 * fw - 1) * height <= (2 * fh + 1) * width

\* C15 as claimed: the stored dimensions are within 1/2 of a pair in the
\* source's aspect ratio, also when the 1px floor applies.
AspectRatioKept ==
    Encoded => WithinHalfOfRatio(processedDimensions[1], processedDimensions[2],
                                 SourceWidth, SourceHeight)

\* C15 as amended: the stored dimensions are within 1/2 of a pair in the
\* source's aspect ratio whenever the 1px floor did not apply.
AspectRatioKeptUnfloored ==
    (Encoded /\ ~FloorApplied) =>
        WithinHalfOfRatio(processedDimensions[1], processedDimensions[2],
                          SourceWidth, SourceHeight)

\* both checks fired, no floor applied; the scaled width was not an integer
AspectRatioWitness ==
    /\ Encoded
    /\ ~FloorApplied
    /\ SourceWidth > RunLimits.maxWidth
    /\ processedDimensions[2] = RunLimits.maxHeight
    /\ processedDimensions[1] < RunLimits.maxWidth
    /\ (RunLimits.maxHeight * SourceWidth) % SourceHeight # 0

\* C16: the dimensions a successful run stores are those of its own source
\* size and limits, whatever the state holds when its callback fires; so
\* two successful runs for the same source size and the same limits store
\* the same dimensions.
DimensionsDeterministic ==
    [][last'[1] = "encoded" =>
          \E run \in BagToSet(images) :
             /\ images' = images (-) SetToBag({run})
             /\ processedDimensions' =
                   DerivedDimensions(run.src, [maxWidth |-> run.maxWidth,
                                               maxHeight |-> run.maxHeight])]_vars

\* a source was processed again, after a settings edit that left the limits
\* as they were, and stored the dimensions the first run derives
DeterministicWitness ==
    /\ last[1] = "encoded"
    /\ burst.clean
    /\ burst.runs = 1
    /\ settings.maxHeight = InitialSettings.maxHeight
    /\ settings.quality # InitialSettings.quality
    /\ processedDimensions = <<SourceWidth, SourceHeight>>

(***************************************************************************)
(* Properties of the state as a whole.                                     *)
(***************************************************************************)
\* C17: while a read is pending or a run is in flight, processing is true.
BusyWhileOutstanding == ~Quiescent => processing

\* C18: when a source is loaded, originalFileName is the name of a file
\* whose content the source is.
FileNameOfSource ==
    originalImageBase64 # Null =>
        \E file \in Files : /\ file.name = originalFileName
                            /\ DataURL(file) = originalImageBase64

\* C19: a result is stored only while a source is loaded.
ResultHasSource == processedImageBase64 # Null => originalImageBase64 # Null

\* C20: base64Length is the length of processedImageBase64, and 0 when
\* processedImageBase64 is null.
LengthMatchesData ==
    base64Length = IF processedImageBase64 = Null THEN 0
                   ELSE StringLength(processedImageBase64)

\* a source was processed again under other settings, and the result stored
\* has another length than the first result of the source
LengthWitness ==
    /\ last[1] = "encoded"
    /\ originalImageBase64 # Null
    /\ Decodes(originalImageBase64)
    /\ settings # InitialSettings
    /\ base64Length > 0
    /\ base64Length # StringLength(DerivedResult(originalImageBase64, InitialSettings))

====
